---- MODULE Spec2Model ----
(***************************************************************************)
(* Model of the video assembly pipeline of RedditStoryGenerator.           *)
(*                                                                         *)
(* Two entry points are modelled:                                          *)
(*   - VideoCompositor.generate_video (src/video/compositor.py), called    *)
(*     with a list of segments and two collaborators.  The collaborators   *)
(*     are parameters of the call: either the repository's own classes     *)
(*     (BackgroundManager, TextOverlayGenerator) or any other object that  *)
(*     provides the method the compositor invokes.                         *)
(*   - main() of src/main.py, from its try block (line 126) on, that is    *)
(*     once argparse has accepted the command line.                        *)
(*                                                                         *)
(* Four further specifications exercise single operations with their       *)
(* inputs drawn from bounded sets: SpecBg (BackgroundManager and the        *)
(* background layer of a segment clip), SpecText (font size search and      *)
(* wrapping of TextOverlayGenerator), SpecPipe (main.py generate_video      *)
(* from the audio loop at line 76 on) and SpecPost (get_top_comments and    *)
(* format_for_video).                                                       *)
(*                                                                         *)
(* Durations are whole seconds.  A media handle is a pair <<kind, k>>:     *)
(* the clip of that kind opened for segment k (k = 0 for the final clip).  *)
(***************************************************************************)
EXTENDS Integers, Sequences, FiniteSets, TLC

\* ------------------------------------------------------------------ bounds
MaxSegments == 3

\* ------------------------------------------------------- program constants
\* Methods each class of the repository provides (its `def`s).
RedditClientMethods == {"get_top_posts", "get_top_comments", "get_post_and_comments"}
BackgroundManagerMethods ==
    {"get_available_backgrounds", "select_random_background", "get_background_clip"}
TextOverlayGeneratorMethods ==
    {"_calculate_max_font_size", "_wrap_text", "create_text_clip", "create_title_card",
     "create_comment_overlay", "create_post_content_overlay"}
VideoCompositorMethods == {"generate_video", "_create_segment_clip"}

\* bg_path.endswith((...)) tuples of _create_segment_clip
VideoSuffixes == {".mp4", ".mov", ".avi"}
ImageSuffixes == {".png", ".jpg", ".jpeg"}

\* ------------------------------------------------------------------ inputs
\* Playable durations of narration files (seconds).
AudioDurations == {3, 4, 6}
\* Durations of background video sources (seconds).
BgSourceDurations == {5}

\* A segment dictionary, as far as the compositor reads it:
\*   audio = "absent"     : no 'audio' key
\*   audio = "unreadable" : 'audio' names a file AudioFileClip cannot open
\*   audio = "ok"         : 'audio' names a file of duration dur
SegmentValues ==
    {[audio |-> "absent", dur |-> 0], [audio |-> "unreadable", dur |-> 0]}
    \cup {[audio |-> "ok", dur |-> d] : d \in AudioDurations}

RECURSIVE SeqsUpTo(_, _)
SeqsUpTo(S, n) ==
    IF n = 0 THEN {<<>>}
    ELSE LET shorter == SeqsUpTo(S, n - 1)
         IN  shorter \cup {Append(s, x) : s \in {t \in shorter : Len(t) = n - 1}, x \in S}

SegmentLists == SeqsUpTo(SegmentValues, MaxSegments)

\* The collaborator objects handed to generate_video.
\*   "repo" : the repository's own class
\*   "duck" : another object providing the method the compositor calls
CollaboratorKinds == {"repo", "duck"}

\* What a provided get_random_background() can return:
\*   none    : None
\*   missing : a path for which os.path.exists is false
\*   file    : an existing file with the given suffix; readable says whether
\*             moviepy can open it, srcDur is the duration of a video source
NoBackground == [kind |-> "none", suffix |-> "", readable |-> FALSE, srcDur |-> 0]
BackgroundReturns ==
    {NoBackground,
     [kind |-> "missing", suffix |-> ".mp4", readable |-> FALSE, srcDur |-> 0],
     [kind |-> "file", suffix |-> ".mp4", readable |-> FALSE, srcDur |-> 0],
     [kind |-> "file", suffix |-> ".png", readable |-> TRUE, srcDur |-> 0]}
    \cup {[kind |-> "file", suffix |-> sfx, readable |-> TRUE, srcDur |-> d] :
             sfx \in {".mp4", ".mkv"}, d \in BgSourceDurations}

VARIABLES
    entry,        \* "compositor" or "main": which entry point this run exercises
    pc,           \* position inside VideoCompositor.generate_video
    segments,     \* the segments argument
    bgm,          \* kind of the background_manager collaborator
    tog,          \* kind of the text_overlay collaborator
    i,            \* loop index of `for i, segment in enumerate(segments)` (1-based)
    video_clips,  \* the video_clips list
    segLog,       \* per segment: what happened to it
    final_clip,   \* the concatenated clip, or NoFinalClip
    outputFile,   \* file at output_file: "none", "partial" or "complete"
    outcome,      \* "running", "returned_path", "returned_None" or "raised"
    raisedAt,     \* the call that raised out of generate_video, or "nowhere"
    opened,       \* media handles opened so far
    released,     \* media handles released so far
    closedClips,  \* clips on which close() was called
    bgSelections, \* number of get_random_background() calls that returned
    mpc,          \* position inside main()
    mainRaised,   \* exception raised inside main()'s try block, or "none"
    exitStatus,   \* value main() hands to sys.exit, -1 while running
    bgState,      \* a call on a BackgroundManager: its directory, arguments and result
    textState,    \* a call on a TextOverlayGenerator: its arguments, locals and result
    pipeState,    \* main.py generate_video from line 76 on: its locals and the files
    postState     \* a post fetched and formatted: RedditClient and PostProcessor

vars == <<entry, pc, segments, bgm, tog, i, video_clips, segLog, final_clip,
          outputFile, outcome, raisedAt, opened, released, closedClips, bgSelections,
          mpc, mainRaised, exitStatus, bgState, textState, pipeState,
          postState>>

compVars == <<pc, segments, bgm, tog, i, video_clips, segLog, final_clip,
              outputFile, outcome, raisedAt, opened, released, closedClips, bgSelections>>
mainVars == <<mpc, mainRaised, exitStatus>>
\* the variables of the other entry points, at rest while the compositor or main() runs
otherVars == <<bgState, textState, pipeState, postState>>
Idle == [pc |-> "idle"]

\* ----------------------------------------------------------------- helpers
Max(a, b) == IF a >= b THEN a ELSE b

\* the elements of a list
Range(list) == {list[n] : n \in DOMAIN list}

HasMethod(kind, methods, name) == kind = "duck" \/ name \in methods

NoClip == [seg |-> 0, duration |-> 0, layers |-> <<>>, audio |-> [seg |-> 0, duration |-> 0]]
NoFinalClip == [duration |-> 0, order |-> <<>>]

\* Exceptions that can arise inside _create_segment_clip; all derive from Exception.
SegmentExceptions == {"OSError", "AttributeError", "RenderError"}

\* ------------------------------------------------------ moviepy operations
\* VideoFileClip(p).loop(duration=d) and ImageClip(p).set_duration(d)
BackgroundClipDuration_NoLoop(isVideo, srcDur, duration) ==
    IF isVideo THEN srcDur ELSE duration

BackgroundClipDuration(isVideo, srcDur, duration) == duration

\* CompositeVideoClip(layers).duration: the latest end of its layers
RECURSIVE CompositeDuration(_)
CompositeDuration(layers) ==
    IF layers = <<>> THEN 0
    ELSE Max(layers[1].duration, CompositeDuration(Tail(layers)))

\* concatenate_videoclips(clips, method="compose").duration: clips laid end to end
RECURSIVE ConcatDuration_Overlay(_)
ConcatDuration_Overlay(clips) ==
    IF clips = <<>> THEN 0
    ELSE Max(clips[1].duration, ConcatDuration_Overlay(Tail(clips)))

RECURSIVE ConcatDuration(_)
ConcatDuration(clips) ==
    IF clips = <<>> THEN 0 ELSE clips[1].duration + ConcatDuration(Tail(clips))

\* ---------------------------------------------------- _create_segment_clip
\* `except Exception as e:` of _create_segment_clip
SegmentHandlerCatches_OnlyOSError(e) == e = "OSError"

SegmentHandlerCatches_NotOSError(e) == e \in SegmentExceptions \ {"OSError"}

SegmentHandlerCatches(e) == e \in SegmentExceptions

\* One pass through the try block for segment k.  bg is what
\* get_random_background() returns when the collaborator provides it, textOk
\* whether a provided create_text_overlay() succeeds.
\* Result: the clip (or NoClip), the handles opened on the way, the exception
\* raised inside the try block ("none" when it ran to a return), whether a
\* background was selected, and the cause recorded for the segment.
Failure(handles, exc, selected, cause) ==
    [built |-> FALSE, clip |-> NoClip, handles |-> handles, exception |-> exc,
     selected |-> selected, cause |-> cause]

SegmentClipResult(k, segment, bgmKind, togKind, bg, textOk) ==
    IF segment.audio = "unreadable"
    THEN Failure({}, "OSError", 0, "audio_unreadable")
    ELSE
    LET duration == segment.dur
        hAudio == {<<"audio", k>>}
        hBg == hAudio \cup {<<"background", k>>}
        isVideo == bg.suffix \in VideoSuffixes
        isImage == bg.suffix \in ImageSuffixes
        bgLayer == [name |-> "background",
                    duration |-> BackgroundClipDuration(isVideo, bg.srcDur, duration)]
        textLayer == [name |-> "text", duration |-> duration]
        layers == <<bgLayer, textLayer>>
    IN
    IF ~HasMethod(bgmKind, BackgroundManagerMethods, "get_random_background")
    THEN Failure(hAudio, "AttributeError", 0, "no_get_random_background")
    ELSE IF bg.kind = "none"
    THEN Failure(hAudio, "none", 1, "background_none")
    ELSE IF bg.kind = "missing"
    THEN Failure(hAudio, "none", 1, "background_missing")
    ELSE IF ~isVideo /\ ~isImage
    THEN Failure(hAudio, "none", 1, "background_unsupported")
    ELSE IF ~bg.readable
    THEN Failure(hAudio, "OSError", 1, "background_unreadable")
    ELSE IF ~HasMethod(togKind, TextOverlayGeneratorMethods, "create_text_overlay")
    THEN Failure(hBg, "AttributeError", 1, "no_create_text_overlay")
    ELSE IF ~textOk
    THEN Failure(hBg, "RenderError", 1, "overlay_failed")
    ELSE [built |-> TRUE,
          clip |-> [seg |-> k, duration |-> CompositeDuration(layers),
                    layers |-> layers,
                    audio |-> [seg |-> k, duration |-> duration]],
          handles |-> hBg \cup {<<"text", k>>, <<"composite", k>>},
          exception |-> "none", selected |-> 1,
          cause |-> IF isVideo THEN "built_on_video" ELSE "built_on_image"]

\* ------------------------------------------------------------ generate_video
\* video_clips.append(clip)
AppendClip_AtFront(clips, clip) == <<clip>> \o clips

AppendClip(clips, clip) == Append(clips, clip)

\* `if not video_clips:`
NoUsableClips_ChecksSegments(clips, segs) == segs = <<>>

NoUsableClips(clips, segs) == clips = <<>>

\* what close() of a composite segment clip releases: the composite itself and
\* the audio attached with set_audio
CompositeCloseReleases(k) == {<<"composite", k>>, <<"audio", k>>}

RECURSIVE ClipSegs(_)
ClipSegs(clips) ==
    IF clips = <<>> THEN <<>> ELSE <<clips[1].seg>> \o ClipSegs(Tail(clips))

Init ==
    /\ entry \in {"compositor", "main"}
    /\ segments \in (IF entry = "compositor" THEN SegmentLists ELSE {<<>>})
    /\ bgm \in (IF entry = "compositor" THEN CollaboratorKinds ELSE {"repo"})
    /\ tog \in (IF entry = "compositor" THEN CollaboratorKinds ELSE {"repo"})
    /\ pc = IF entry = "compositor" THEN "loop" ELSE "idle"
    /\ i = 1
    /\ video_clips = <<>>
    /\ segLog = [k \in 1..Len(segments) |-> [status |-> "pending", cause |-> ""]]
    /\ final_clip = NoFinalClip
    /\ outputFile = "none"
    /\ outcome = IF entry = "compositor" THEN "running" ELSE "not_called"
    /\ raisedAt = "nowhere"
    /\ opened = {}
    /\ released = {}
    /\ closedClips = {}
    /\ bgSelections = 0
    /\ mpc = IF entry = "main" THEN "init_components" ELSE "idle"
    /\ mainRaised = "none"
    /\ exitStatus = -1
    /\ bgState = Idle
    /\ textState = Idle
    /\ pipeState = Idle
    /\ postState = Idle

\* lines 76-78: a segment without an 'audio' key is skipped
SkipSegmentWithoutAudio ==
    /\ pc = "loop"
    /\ i <= Len(segments)
    /\ segments[i].audio = "absent"
    /\ segLog' = [segLog EXCEPT ![i] = [status |-> "skipped", cause |-> "no_audio_key"]]
    /\ i' = i + 1
    /\ UNCHANGED <<entry, pc, segments, bgm, tog, video_clips, final_clip, outputFile,
                   outcome, raisedAt, opened, released, closedClips, bgSelections>>
    /\ UNCHANGED mainVars
    /\ UNCHANGED otherVars

\* lines 80-87 with _create_segment_clip (lines 123-166)
CreateSegmentClip ==
    /\ pc = "loop"
    /\ i <= Len(segments)
    /\ segments[i].audio # "absent"
    /\ \E bg \in BackgroundReturns, textOk \in BOOLEAN :
        LET r == SegmentClipResult(i, segments[i], bgm, tog, bg, textOk)
            escapes == r.exception # "none" /\ ~SegmentHandlerCatches(r.exception)
        IN  /\ opened' = opened \cup r.handles
            /\ bgSelections' = bgSelections + r.selected
            /\ segLog' = [segLog EXCEPT ![i] =
                            [status |-> IF r.built THEN "built" ELSE "failed",
                             cause |-> r.cause]]
            /\ IF escapes
               THEN /\ outcome' = "raised"
                    /\ raisedAt' = "_create_segment_clip"
                    /\ pc' = "done"
                    /\ UNCHANGED <<i, video_clips>>
               ELSE /\ video_clips' = IF r.built THEN AppendClip(video_clips, r.clip)
                                      ELSE video_clips
                    /\ i' = i + 1
                    /\ UNCHANGED <<outcome, raisedAt, pc>>
    /\ UNCHANGED <<entry, segments, bgm, tog, final_clip, outputFile, released, closedClips>>
    /\ UNCHANGED mainVars
    /\ UNCHANGED otherVars

\* lines 89-91
ReturnNoClips ==
    /\ pc = "loop"
    /\ i > Len(segments)
    /\ NoUsableClips(video_clips, segments)
    /\ outcome' = "returned_None"
    /\ pc' = "done"
    /\ UNCHANGED <<entry, segments, bgm, tog, i, video_clips, segLog, final_clip, outputFile,
                   raisedAt, opened, released, closedClips, bgSelections>>
    /\ UNCHANGED mainVars
    /\ UNCHANGED otherVars

\* line 95
Concatenate ==
    /\ pc = "loop"
    /\ i > Len(segments)
    /\ ~NoUsableClips(video_clips, segments)
    /\ \E ok \in BOOLEAN :
        IF ok
        THEN /\ final_clip' = [duration |-> ConcatDuration(video_clips),
                               order |-> ClipSegs(video_clips)]
             /\ opened' = opened \cup {<<"final", 0>>}
             /\ pc' = "write"
             /\ UNCHANGED <<outcome, raisedAt>>
        ELSE /\ outcome' = "raised"
             /\ raisedAt' = "concatenate_videoclips"
             /\ pc' = "done"
             /\ UNCHANGED <<final_clip, opened>>
    /\ UNCHANGED <<entry, segments, bgm, tog, i, video_clips, segLog, outputFile,
                   released, closedClips, bgSelections>>
    /\ UNCHANGED mainVars
    /\ UNCHANGED otherVars

\* line 99: write_videofile encodes straight into output_file
WriteVideofile ==
    /\ pc = "write"
    /\ \E result \in {"written", "failed_before_writing", "failed_while_writing"} :
        /\ outputFile' = CASE result = "written" -> "complete"
                           [] result = "failed_before_writing" -> "none"
                           [] result = "failed_while_writing" -> "partial"
        /\ IF result = "written"
           THEN /\ pc' = "close"
                /\ UNCHANGED <<outcome, raisedAt>>
           ELSE /\ outcome' = "raised"
                /\ raisedAt' = "write_videofile"
                /\ pc' = "done"
    /\ UNCHANGED <<entry, segments, bgm, tog, i, video_clips, segLog, final_clip,
                   opened, released, closedClips, bgSelections>>
    /\ UNCHANGED mainVars
    /\ UNCHANGED otherVars

\* lines 102-104: the clips close() is called on
ClipsClosed_AllButLast(clips) ==
    {<<"composite", clips[n].seg>> : n \in 1..(Len(clips) - 1)} \cup {<<"final", 0>>}

ClipsClosed(clips) ==
    {<<"composite", clips[n].seg>> : n \in 1..Len(clips)} \cup {<<"final", 0>>}

\* lines 101-106
CloseClipsAndReturn ==
    /\ pc = "close"
    /\ closedClips' = closedClips \cup ClipsClosed(video_clips)
    /\ released' = released
                   \cup UNION {CompositeCloseReleases(video_clips[n].seg) :
                                 n \in 1..Len(video_clips)}
                   \cup {<<"final", 0>>}
    /\ outcome' = "returned_path"
    /\ pc' = "done"
    /\ UNCHANGED <<entry, segments, bgm, tog, i, video_clips, segLog, final_clip, outputFile,
                   raisedAt, opened, bgSelections>>
    /\ UNCHANGED mainVars
    /\ UNCHANGED otherVars

\* ---------------------------------------------------------------- main.py
\* main(): `return 1` in both failure branches, `return 0` at the end
ExitStatus_ExceptFallsThrough(raised, video_path) ==
    IF raised # "none" THEN 0 ELSE IF video_path # "" THEN 0 ELSE 1

ExitStatus(raised, video_path) ==
    IF raised # "none" THEN 1 ELSE IF video_path # "" THEN 0 ELSE 1

\* main.py generate_video, lines 45-51: the constructors; RedditClient() and
\* TTSEngine() can raise
MainInitComponents ==
    /\ mpc = "init_components"
    /\ \E ok \in BOOLEAN :
        IF ok
        THEN mpc' = "fetch_posts" /\ UNCHANGED mainRaised
        ELSE mpc' = "return" /\ mainRaised' = "Exception"
    /\ UNCHANGED <<entry, exitStatus>>
    /\ UNCHANGED compVars
    /\ UNCHANGED otherVars

\* main.py generate_video, line 55: reddit_client.fetch_top_posts(...).  The
\* statements after it run only if RedditClient provides that method.
MainFetchPosts ==
    /\ mpc = "fetch_posts"
    /\ IF HasMethod("repo", RedditClientMethods, "fetch_top_posts")
       THEN mpc' = "fetch_comments" /\ UNCHANGED mainRaised
       ELSE mpc' = "return" /\ mainRaised' = "AttributeError"
    /\ UNCHANGED <<entry, exitStatus>>
    /\ UNCHANGED compVars
    /\ UNCHANGED otherVars

\* lines 126-138: the try/except of main() and its return value
MainReturn ==
    /\ mpc = "return"
    /\ exitStatus' = ExitStatus(mainRaised, "")
    /\ mpc' = "exited"
    /\ UNCHANGED <<entry, mainRaised>>
    /\ UNCHANGED compVars
    /\ UNCHANGED otherVars

Next ==
    \/ SkipSegmentWithoutAudio
    \/ CreateSegmentClip
    \/ ReturnNoClips
    \/ Concatenate
    \/ WriteVideofile
    \/ CloseClipsAndReturn
    \/ MainInitComponents
    \/ MainFetchPosts
    \/ MainReturn

Spec == Init /\ [][Next]_vars

\* ===================================================== BackgroundManager
\* config.VIDEO_WIDTH, config.VIDEO_HEIGHT (also the defaults of VideoCompositor)
VIDEO_WIDTH == 1080
VIDEO_HEIGHT == 1920

MaxDirEntries == 2

\* self.video_extensions
VideoExtensions == {".mp4", ".avi", ".mov", ".mkv"}

\* Directory entries: the end of the file name and whether the entry is a
\* regular file (os.path.isfile).
DirSuffixes == {".mp4", ".MP4", ".mkv", ".png", ".txt"}
DirEntries == [suffix : DirSuffixes, isFile : BOOLEAN]
Directories ==
    {[exists |-> FALSE, entries |-> {}]}
    \cup {[exists |-> TRUE, entries |-> es] :
            es \in {x \in SUBSET DirEntries : Cardinality(x) <= MaxDirEntries}}

\* str.lower() on the file name endings above
Lower(suffix) == IF suffix = ".MP4" THEN ".mp4" ELSE suffix

\* get_available_backgrounds (os.listdir names each entry once; the order of
\* the list is the directory's)
GetAvailableBackgrounds(dir) ==
    IF ~dir.exists THEN {}
    ELSE {e \in dir.entries : e.isFile /\ Lower(e.suffix) \in VideoExtensions}

\* line 40: the test an entry of the listing has to pass
IsBackground_AnyEntry(e) == Lower(e.suffix) \in VideoExtensions

IsBackground(e) == e.isFile /\ Lower(e.suffix) \in VideoExtensions

\* os.listdir: every entry once, in an order the file system chooses
Listings(entries) ==
    {l \in [1..Cardinality(entries) -> entries] :
        \A a, b \in DOMAIN l : a # b => l[a] # l[b]}

\* lines 38-41: the loop over the listing
RECURSIVE AppendBackgrounds(_, _)
AppendBackgrounds(listing, backgrounds) ==
    IF listing = <<>> THEN backgrounds
    ELSE AppendBackgrounds(Tail(listing),
                           IF IsBackground(Head(listing))
                           THEN Append(backgrounds, Head(listing)) ELSE backgrounds)

\* get_available_backgrounds as the list it returns, for a listing of the
\* directory (lines 32-44)
GetAvailableBackgroundsList(dir, listing) ==
    IF ~dir.exists THEN <<>> ELSE AppendBackgrounds(listing, <<>>)

\* compositor.py lines 137-143: what _create_segment_clip makes of a background
\* path, by the end of its name
FormatCheck(suffix) ==
    IF suffix \in VideoSuffixes THEN "video"
    ELSE IF suffix \in ImageSuffixes THEN "image"
    ELSE "unsupported"

\* select_random_background: the values it can return, or the exception it
\* raises; random.choice raises IndexError on an empty list
NoPath == [suffix |-> "", isFile |-> FALSE]
RaisesIndexError == [suffix |-> "IndexError", isFile |-> FALSE]
\* a path for which os.path.exists is false
MissingPath == [suffix |-> "missing", isFile |-> FALSE]

SelectRandomBackground_NoEmptyCheck(backgrounds) ==
    IF backgrounds = {} THEN {RaisesIndexError} ELSE backgrounds

SelectRandomBackground(backgrounds) ==
    IF backgrounds = {} THEN {NoPath} ELSE backgrounds

\* What opening a path with VideoFileClip reveals: whether it can be read, the
\* frame size and the duration of the source.
SourceSizes == {<<1920, 1080>>, <<1080, 1920>>, <<720, 1280>>, <<1000, 2000>>, <<640, 480>>}
Unreadable == [readable |-> FALSE, w |-> 0, h |-> 0, srcDur |-> 0]
SourceMedia ==
    {Unreadable}
    \cup {[readable |-> TRUE, w |-> sz[1], h |-> sz[2], srcDur |-> d] :
            sz \in SourceSizes, d \in BgSourceDurations}

\* Needed durations of a background layer.
NeededDurations == AudioDurations \cup BgSourceDurations

\* A visual layer: its frame size, the columns cut off left and right and the
\* rows cut off above and below by cropping, its duration, and for every
\* second t of the layer the second of the source shown (srcTime[t]).
NoLayer == [w |-> 0, h |-> 0, left |-> 0, right |-> 0, top |-> 0, bottom |-> 0,
            duration |-> 0, srcTime |-> <<>>]

\* a freshly opened source
Opened(m) ==
    [w |-> m.w, h |-> m.h, left |-> 0, right |-> 0, top |-> 0, bottom |-> 0,
     duration |-> m.srcDur, srcTime |-> [t \in 1..m.srcDur |-> t - 1]]

\* clip.resize(height=H): the width follows the aspect ratio
ResizeToHeight(clip, H) == [clip EXCEPT !.w = (clip.w * H) \div clip.h, !.h = H]

\* int() of half of n, truncating toward zero
TruncHalf(n) == IF n >= 0 THEN n \div 2 ELSE -((-n) \div 2)

\* pic[start:stop] on an axis of n pixels: the first pixel kept and the pixel
\* after the last one kept
SliceBounds(start, stop, n) ==
    LET lo0 == IF start < 0 THEN start + n ELSE start
        lo == IF lo0 < 0 THEN 0 ELSE IF lo0 > n THEN n ELSE lo0
        hi0 == IF stop < 0 THEN stop + n ELSE stop
        hi1 == IF hi0 < 0 THEN 0 ELSE IF hi0 > n THEN n ELSE hi0
        hi == IF hi1 < lo THEN lo ELSE hi1
    IN  <<lo, hi>>

\* clip.crop(x1, y1, x2, y2) with doubled coordinates (x1 = x1d / 2, ...)
Crop(clip, x1d, y1d, x2d, y2d) ==
    LET xs == SliceBounds(TruncHalf(x1d), TruncHalf(x2d), clip.w)
        ys == SliceBounds(TruncHalf(y1d), TruncHalf(y2d), clip.h)
    IN  [clip EXCEPT !.w = xs[2] - xs[1], !.h = ys[2] - ys[1],
                     !.left = xs[1], !.right = clip.w - xs[2],
                     !.top = ys[1], !.bottom = clip.h - ys[2]]

\* clip.loop(duration=d): the source repeats from its start
Loop(clip, d) ==
    [clip EXCEPT !.duration = d,
                 !.srcTime = [t \in 1..d |-> clip.srcTime[((t - 1) % clip.duration) + 1]]]

\* clip.subclip(t_start, t_end)
Subclip(clip, t_start, t_end) ==
    [clip EXCEPT !.duration = t_end - t_start,
                 !.srcTime = [t \in 1..(t_end - t_start) |-> clip.srcTime[t + t_start]]]

\* background.py lines 85-93: resize to the frame height, crop when wider
FitToFrameBackgroundManager(clip) ==
    LET r == ResizeToHeight(clip, VIDEO_HEIGHT)
        x1d == r.w - VIDEO_WIDTH
    IN  IF r.w > VIDEO_WIDTH
        THEN Crop(r, x1d, 0, x1d + 2 * VIDEO_WIDTH, 2 * VIDEO_HEIGHT)
        ELSE r

\* compositor.py lines 146-148: resize to the frame height, crop around the centre
FitToFrameCompositor(clip) ==
    LET r == ResizeToHeight(clip, VIDEO_HEIGHT)
    IN  Crop(r, r.w - VIDEO_WIDTH, r.h - VIDEO_HEIGHT, r.w + VIDEO_WIDTH, r.h + VIDEO_HEIGHT)

\* background.py lines 95-101: loop when shorter, trim when longer
FitDuration_TrimFromEnd(clip, duration) ==
    IF clip.duration < duration THEN Loop(clip, duration)
    ELSE IF clip.duration > duration
    THEN Subclip(clip, clip.duration - duration, clip.duration)
    ELSE clip

FitDuration(clip, duration) ==
    LET looped == IF clip.duration < duration THEN Loop(clip, duration) ELSE clip
    IN  IF looped.duration > duration THEN Subclip(looped, 0, duration) ELSE looped

\* the arguments and results of one call
BgCall(dir, op) ==
    [pc |-> "ready", dir |-> dir, op |-> op, path |-> NoPath, media |-> Unreadable,
     needed |-> 0, raised |-> "none", returnsNone |-> FALSE, clip |-> NoLayer,
     backgrounds |-> <<>>, format |-> "unchecked"]

InitBg ==
    /\ entry = "background"
    /\ pc = "idle" /\ segments = <<>> /\ bgm = "repo" /\ tog = "repo" /\ i = 1
    /\ video_clips = <<>> /\ segLog = <<>> /\ final_clip = NoFinalClip
    /\ outputFile = "none" /\ outcome = "not_called" /\ raisedAt = "nowhere"
    /\ opened = {} /\ released = {} /\ closedClips = {} /\ bgSelections = 0
    /\ mpc = "idle" /\ mainRaised = "none" /\ exitStatus = -1
    /\ textState = Idle /\ pipeState = Idle /\ postState = Idle
    /\ \E dir \in Directories :
          bgState = BgCall(dir, "none")

\* background.py lines 46-61
SelectRandomBackgroundCall ==
    /\ bgState.pc = "ready"
    /\ \E r \in SelectRandomBackground(GetAvailableBackgrounds(bgState.dir)) :
          bgState' = [bgState EXCEPT
                        !.pc = "done", !.op = "select_random_background",
                        !.path = IF r = RaisesIndexError THEN NoPath ELSE r,
                        !.raised = IF r = RaisesIndexError THEN "IndexError" ELSE "none",
                        !.returnsNone = (r = NoPath)]
    /\ UNCHANGED <<entry, compVars, mainVars, textState, pipeState, postState>>

\* background.py lines 63-107: get_background_clip(path, duration).  The path
\* argument is None (a random background is selected), a path that does not
\* exist, or an entry of the directory.
GetBackgroundClipCall ==
    /\ bgState.pc = "ready"
    /\ \E arg \in {NoPath, MissingPath} \cup bgState.dir.entries,
          m \in SourceMedia, duration \in NeededDurations :
        \E sel \in (IF arg = NoPath
                    THEN SelectRandomBackground(GetAvailableBackgrounds(bgState.dir))
                    ELSE IF arg = MissingPath THEN {NoPath} ELSE {arg}) :
          LET found == sel \notin {NoPath, RaisesIndexError}
              canRead == found /\ sel.isFile /\ m.readable
              clip == FitDuration(FitToFrameBackgroundManager(Opened(m)), duration)
          IN  bgState' = [bgState EXCEPT
                            !.pc = "done", !.op = "get_background_clip",
                            !.path = IF found THEN sel ELSE NoPath,
                            !.needed = duration,
                            !.media = IF canRead THEN m ELSE Unreadable,
                            !.raised = IF sel = RaisesIndexError THEN "IndexError"
                                       ELSE "none",
                            !.returnsNone = (sel # RaisesIndexError /\ ~canRead),
                            !.clip = IF canRead THEN clip ELSE NoLayer]
    /\ UNCHANGED <<entry, compVars, mainVars, textState, pipeState, postState>>

\* compositor.py lines 135-148: the background layer of a segment clip built
\* from a video file bg_path for a narration of the given duration
CompositorBackgroundLayer ==
    /\ bgState.pc = "ready"
    /\ \E e \in {x \in bgState.dir.entries : x.isFile /\ x.suffix \in VideoSuffixes},
          m \in SourceMedia \ {Unreadable}, duration \in NeededDurations :
          bgState' = [bgState EXCEPT
                        !.pc = "done", !.op = "compositor_layer",
                        !.path = e, !.needed = duration, !.media = m,
                        !.clip = FitToFrameCompositor(Loop(Opened(m), duration))]
    /\ UNCHANGED <<entry, compVars, mainVars, textState, pipeState, postState>>

\* background.py lines 25-44
GetAvailableBackgroundsCall ==
    /\ bgState.pc = "ready"
    /\ \E listing \in Listings(bgState.dir.entries) :
          bgState' = [bgState EXCEPT
                        !.pc = "done", !.op = "get_available_backgrounds",
                        !.backgrounds = GetAvailableBackgroundsList(bgState.dir, listing)]
    /\ UNCHANGED <<entry, compVars, mainVars, textState, pipeState, postState>>

\* compositor.py lines 131-143 for a bg_path that get_available_backgrounds
\* lists (such a path exists)
CompositorFormatCheck ==
    /\ bgState.pc = "ready"
    /\ \E listing \in Listings(bgState.dir.entries) :
        \E n \in DOMAIN GetAvailableBackgroundsList(bgState.dir, listing) :
          LET bg_path == GetAvailableBackgroundsList(bgState.dir, listing)[n]
          IN  bgState' = [bgState EXCEPT
                            !.pc = "done", !.op = "format_check",
                            !.path = bg_path,
                            !.format = FormatCheck(bg_path.suffix),
                            !.returnsNone = (FormatCheck(bg_path.suffix) = "unsupported")]
    /\ UNCHANGED <<entry, compVars, mainVars, textState, pipeState, postState>>

NextBg ==
    \/ GetAvailableBackgroundsCall
    \/ CompositorFormatCheck
    \/ SelectRandomBackgroundCall
    \/ GetBackgroundClipCall
    \/ CompositorBackgroundLayer

SpecBg == InitBg /\ [][NextBg]_vars

\* ------------------------------------------------------ TextOverlayGenerator
\* A text is a sequence of one-character strings.  MaxTextLen bounds its length.
MaxTextLen == 5

Characters == {"x", "W", " "}

Texts == SeqsUpTo(Characters, MaxTextLen)

\* compositor and main.py are not running
CompositorAndMainAtRest ==
    /\ pc = "idle" /\ segments = <<>> /\ bgm = "repo" /\ tog = "repo" /\ i = 1
    /\ video_clips = <<>> /\ segLog = <<>> /\ final_clip = NoFinalClip
    /\ outputFile = "none" /\ outcome = "not_called" /\ raisedAt = "nowhere"
    /\ opened = {} /\ released = {} /\ closedClips = {} /\ bgSelections = 0
    /\ mpc = "idle" /\ mainRaised = "none" /\ exitStatus = -1

\* config.DEFAULT_FONT, and the value of self.font_path when none is usable
DEFAULT_FONT == "arial.ttf"

NoFontPath == "None"

\* text_overlay.py lines 31, 37-40
FontPathAfterInit_KeepsConfigured(font_path, exists) == font_path

FontPathAfterInit(font_path, exists) ==
    IF ~exists THEN NoFontPath ELSE font_path

\* lines 65 and 87: ImageFont.truetype(self.font_path, font_size) if
\* self.font_path else ImageFont.load_default().  truetype raises OSError when
\* the file cannot be opened.
LoadFont(font_path, exists, font_size) ==
    IF font_path # NoFontPath
    THEN IF exists THEN [kind |-> "truetype", size |-> font_size]
         ELSE [kind |-> "OSError", size |-> font_size]
    ELSE [kind |-> "default", size |-> 0]

\* Advance widths of the scalable font in 1/1000 em (those of Arial), and the
\* cell of the built-in bitmap font, which ignores the requested size.
EmUnits == [c \in Characters |-> IF c = "x" THEN 500 ELSE IF c = "W" THEN 944 ELSE 278]

CharWidth(c, font) ==
    IF font.kind = "default" THEN 6 ELSE (EmUnits[c] * font.size) \div 1000

LineHeight(font) == IF font.kind = "default" THEN 11 ELSE font.size

RECURSIVE TextWidth(_, _)
TextWidth(text, font) ==
    IF text = <<>> THEN 0 ELSE CharWidth(Head(text), font) + TextWidth(Tail(text), font)

\* ImageDraw.textsize(text, font=font) of a text without line breaks
TextSize(text, font) == <<TextWidth(text, font), LineHeight(font)>>

\* textwrap: the text is cut into chunks, maximal runs of blanks and of
\* non-blanks
RECURSIVE SplitChunks(_)
SplitChunks(text) ==
    IF text = <<>> THEN <<>>
    ELSE LET rest == SplitChunks(Tail(text))
         IN  IF rest # <<>> /\ ((Head(rest)[1] = " ") <=> (Head(text) = " "))
             THEN <<(<<Head(text)>> \o Head(rest))>> \o Tail(rest)
             ELSE <<(<<Head(text)>>)>> \o rest

\* chunk.strip() == ''
IsBlank(chunk) == \A n \in DOMAIN chunk : chunk[n] = " "

RECURSIVE Join(_)
Join(chunks) == IF chunks = <<>> THEN <<>> ELSE Head(chunks) \o Join(Tail(chunks))

\* TextWrapper._wrap_chunks, inner loop: chunks are taken while they fit
RECURSIVE FillLine(_, _, _)
FillLine(chunks, cur_line, width) ==
    IF chunks # <<>> /\ Len(Join(cur_line)) + Len(Head(chunks)) <= width
    THEN FillLine(Tail(chunks), Append(cur_line, Head(chunks)), width)
    ELSE [cur_line |-> cur_line, chunks |-> chunks]

\* TextWrapper._handle_long_word with break_long_words = True (the default):
\* the part of the chunk that fills the line is cut off and put on it.
HandleLongWord(chunks, cur_line, width) ==
    LET space_left == IF width < 1 THEN 1 ELSE width - Len(Join(cur_line))
        chunk      == Head(chunks)
    IN  [cur_line |-> Append(cur_line, SubSeq(chunk, 1, space_left)),
         chunks   |-> <<SubSeq(chunk, space_left + 1, Len(chunk))>> \o Tail(chunks)]

\* TextWrapper._wrap_chunks with drop_whitespace = True (the default)
RECURSIVE WrapChunks(_, _, _)
WrapChunks(chunks, lines, width) ==
    IF chunks = <<>> THEN lines
    ELSE LET start  == IF IsBlank(Head(chunks)) /\ lines # <<>>
                       THEN Tail(chunks) ELSE chunks
             filled == FillLine(start, <<>>, width)
             broken == IF filled.chunks # <<>> /\ Len(Head(filled.chunks)) > width
                       THEN HandleLongWord(filled.chunks, filled.cur_line, width)
                       ELSE filled
             cur    == IF broken.cur_line # <<>>
                           /\ IsBlank(broken.cur_line[Len(broken.cur_line)])
                       THEN SubSeq(broken.cur_line, 1, Len(broken.cur_line) - 1)
                       ELSE broken.cur_line
         IN  WrapChunks(broken.chunks,
                        IF cur # <<>> THEN Append(lines, Join(cur)) ELSE lines,
                        width)

\* textwrap.wrap(text, width=chars_per_line)
TextwrapWrap(text, width) == WrapChunks(SplitChunks(text), <<>>, width)

\* line 95: max(1, int(max_width / avg_char_width * 0.9))
CharsPerLine(max_width, avg_char_width) ==
    Max(1, (max_width * 9) \div (avg_char_width * 10))

\* text_overlay.py lines 92-98, once the font is loaded
WrapText(text, font, max_width) ==
    TextwrapWrap(text, CharsPerLine(max_width, TextSize(<<"x">>, font)[1]))

\* lines 56, 57 and 71
StartFontSize == 120

MinFontSize == 24

FontSizeStep == 2

\* line 68
Fits(text, font, max_width, max_height) ==
    TextSize(text, font)[1] <= max_width /\ TextSize(text, font)[2] <= max_height

\* the sizes of the video frame a generator is constructed for, and the
\* font_size argument of create_text_clip (NoFontSize: None)
FrameSizes == {<<1080, 1920>>, <<300, 900>>, <<145, 900>>, <<120, 900>>}

NoFontSize == 0

FontSizeArguments == {NoFontSize, 42}

\* one TextOverlayGenerator and one create_text_clip call on it
TextCall(exists, frame, text, font_size) ==
    [pc |-> "ready", fontExists |-> exists,
     font_path |-> FontPathAfterInit(DEFAULT_FONT, exists),
     width |-> frame[1], height |-> frame[2],
     text |-> text, argument |-> font_size,
     max_width |-> 0, max_height |-> 0, font_size |-> font_size,
     fontsLoaded |-> {}, raised |-> "none", wrapped_lines |-> <<>>]

InitText ==
    /\ entry = "text_overlay"
    /\ CompositorAndMainAtRest
    /\ bgState = Idle /\ pipeState = Idle /\ postState = Idle
    /\ \E exists \in BOOLEAN, frame \in FrameSizes, text \in Texts,
          font_size \in FontSizeArguments :
          textState = TextCall(exists, frame, text, font_size)

\* create_text_clip lines 116-122, and _calculate_max_font_size lines 56-61
CreateTextClipBegin ==
    /\ textState.pc = "ready"
    /\ textState' = [textState EXCEPT
                       !.max_width = textState.width - 2 * 50,
                       !.max_height = textState.height \div 3,
                       !.font_size = IF textState.argument = NoFontSize
                                     THEN StartFontSize ELSE textState.argument,
                       !.pc = IF textState.argument = NoFontSize
                              THEN "font_size_loop" ELSE "wrap"]
    /\ UNCHANGED <<entry, compVars, mainVars, bgState, pipeState, postState>>

\* _calculate_max_font_size lines 64-73: one evaluation of the loop condition
\* and, while it holds, one pass through the body
CalculateMaxFontSizeStep ==
    /\ textState.pc = "font_size_loop"
    /\ LET font == LoadFont(textState.font_path, textState.fontExists,
                            textState.font_size)
       IN  IF textState.font_size > MinFontSize
           THEN IF font.kind = "OSError"
                THEN textState' = [textState EXCEPT !.pc = "raised",
                                                    !.raised = "OSError"]
                ELSE textState' =
                       [textState EXCEPT
                          !.fontsLoaded = @ \cup {font.kind},
                          !.pc = IF Fits(textState.text, font, textState.max_width,
                                         textState.max_height)
                                 THEN "wrap" ELSE "font_size_loop",
                          !.font_size = IF Fits(textState.text, font,
                                                textState.max_width,
                                                textState.max_height)
                                        THEN @ ELSE @ - FontSizeStep]
           ELSE textState' = [textState EXCEPT !.pc = "wrap"]
    /\ UNCHANGED <<entry, compVars, mainVars, bgState, pipeState, postState>>

\* create_text_clip line 125: _wrap_text(text, font_size, max_width), lines 87-100
WrapTextCall ==
    /\ textState.pc = "wrap"
    /\ LET font == LoadFont(textState.font_path, textState.fontExists,
                            textState.font_size)
       IN  IF font.kind = "OSError"
           THEN textState' = [textState EXCEPT !.pc = "raised", !.raised = "OSError"]
           ELSE textState' =
                  [textState EXCEPT
                     !.fontsLoaded = @ \cup {font.kind},
                     !.wrapped_lines = WrapText(textState.text, font,
                                                textState.max_width),
                     !.pc = "done"]
    /\ UNCHANGED <<entry, compVars, mainVars, bgState, pipeState, postState>>

NextText ==
    \/ CreateTextClipBegin
    \/ CalculateMaxFontSizeStep
    \/ WrapTextCall

SpecText == InitText /\ [][NextText]_vars

\* ------------------------------------- main.py generate_video, line 76 on
\* The segments format_for_video returned (lines 70-74: at least one), each
\* with a text that is empty or not.
SegmentTexts == {"text", ""}

PipelineSegments == SeqsUpTo(SegmentTexts, MaxSegments) \ {<<>>}

\* tts_engine.py lines 54-74: "" for an empty text; otherwise a temporary file
\* is created (line 61) and either the speech is saved into it and its path
\* returned, or lines 67-68 raise and "" is returned with the file left behind.
TextToSpeechOutcomes(text) ==
    IF text = "" THEN {"empty_text"} ELSE {"saved", "synthesis_failed"}

\* what a compositor's create_video can do (the repository's VideoCompositor
\* has no such method)
CreateVideoOutcomes(kind) ==
    IF HasMethod(kind, VideoCompositorMethods, "create_video")
    THEN {"video", "no_video", "raises"}
    ELSE {"AttributeError"}

PipelineRun(segs, kind) ==
    [pc |-> "audio_loop", segments |-> segs, compositor |-> kind, i |-> 1,
     audio_paths |-> <<>>, files |-> {}, video_path |-> "unset", raised |-> "none"]

InitPipe ==
    /\ entry = "pipeline"
    /\ CompositorAndMainAtRest
    /\ bgState = Idle /\ textState = Idle /\ postState = Idle
    /\ \E segs \in PipelineSegments, kind \in CollaboratorKinds :
          pipeState = PipelineRun(segs, kind)

\* main.py lines 81-89: the path appended for segment k, the narration file or
\* a placeholder made by mkstemp
AppendAudioPath_SkipsFailure(audio_paths, tts, k) ==
    IF tts = "saved" THEN Append(audio_paths, <<"tts", k>>) ELSE audio_paths

AppendAudioPath(audio_paths, tts, k) ==
    Append(audio_paths, IF tts = "saved" THEN <<"tts", k>> ELSE <<"placeholder", k>>)

\* main.py lines 80-89: one pass of the audio loop
TextToSpeechStep ==
    /\ pipeState.pc = "audio_loop"
    /\ pipeState.i <= Len(pipeState.segments)
    /\ \E tts \in TextToSpeechOutcomes(pipeState.segments[pipeState.i]) :
          LET k == pipeState.i
              created == IF tts = "empty_text" THEN {} ELSE {<<"tts", k>>}
              audio_paths == AppendAudioPath(pipeState.audio_paths, tts, k)
          IN  pipeState' = [pipeState EXCEPT
                              !.files = @ \cup created \cup Range(audio_paths),
                              !.audio_paths = audio_paths,
                              !.i = k + 1]
    /\ UNCHANGED <<entry, compVars, mainVars, bgState, textState, postState>>

\* main.py lines 91-99
CreateVideoCall ==
    /\ pipeState.pc = "audio_loop"
    /\ pipeState.i > Len(pipeState.segments)
    /\ \E result \in CreateVideoOutcomes(pipeState.compositor) :
          pipeState' = [pipeState EXCEPT
                          !.pc = IF result \in {"video", "no_video"}
                                 THEN "cleanup" ELSE "raised",
                          !.raised = IF result \in {"video", "no_video"} THEN "none"
                                     ELSE IF result = "raises" THEN "Exception"
                                     ELSE result,
                          !.video_path = IF result \in {"video", "no_video"}
                                         THEN result ELSE "unset",
                          !.i = 1]
    /\ UNCHANGED <<entry, compVars, mainVars, bgState, textState, postState>>

\* main.py lines 102-107: one pass of the clean-up loop
RemoveAudioStep ==
    /\ pipeState.pc = "cleanup"
    /\ pipeState.i <= Len(pipeState.audio_paths)
    /\ pipeState' = [pipeState EXCEPT
                       !.files = @ \ {pipeState.audio_paths[pipeState.i]},
                       !.i = @ + 1]
    /\ UNCHANGED <<entry, compVars, mainVars, bgState, textState, postState>>

\* main.py lines 109-113
PipelineReturn ==
    /\ pipeState.pc = "cleanup"
    /\ pipeState.i > Len(pipeState.audio_paths)
    /\ pipeState' = [pipeState EXCEPT !.pc = "done"]
    /\ UNCHANGED <<entry, compVars, mainVars, bgState, textState, postState>>

NextPipe ==
    \/ TextToSpeechStep
    \/ CreateVideoCall
    \/ RemoveAudioStep
    \/ PipelineReturn

SpecPipe == InitPipe /\ [][NextPipe]_vars

\* ------------------------------------------- RedditClient and PostProcessor
\* Texts are represented by the length of their cleaned form (clean_text).
MaxComments == 2

\* A post: the length of its cleaned title, and its selftext as the sequence
\* of its paragraphs (lines), each given by its cleaned length, 0 for a blank
\* one.  <<>> is the empty selftext.
TitleLengths == {2, 6}

ParagraphLengths == {0, 3}

Posts == [title : TitleLengths, selftext : SeqsUpTo(ParagraphLengths, 2)]

\* A comment of the forest Reddit returns: its score, the length of its
\* cleaned body, and whether it still has an author.
RawComments == [score : {1, 5}, body : {4, 5, 7}, author : BOOLEAN]

CommentForests == SeqsUpTo(RawComments, MaxComments)

MaxLengths == {5, 8, 2000}

Limits == {1, 10}

\* reddit_client.py lines 91-103: the first `limit` comments of the forest,
\* without those whose author is gone; id is the place in the forest
RECURSIVE CollectComments(_, _, _)
CollectComments(forest, n, limit) ==
    IF n > Len(forest) \/ n > limit THEN <<>>
    ELSE (IF forest[n].author
          THEN <<[id |-> n, score |-> forest[n].score, body |-> forest[n].body]>>
          ELSE <<>>)
         \o CollectComments(forest, n + 1, limit)

GetTopComments(forest, limit) == CollectComments(forest, 1, limit)

RECURSIVE SumLengths(_)
SumLengths(lengths) ==
    IF lengths = <<>> THEN 0 ELSE Head(lengths) + SumLengths(Tail(lengths))

IsPositive(n) == n > 0

\* clean_text on the selftext (lines 19-34): every run of white space, line
\* breaks included, becomes one blank and the ends are stripped, so the
\* paragraphs that are not blank end up on one line, one blank between them.
CleanedSelftextLength(selftext) ==
    LET filled == SelectSeq(selftext, IsPositive)
    IN  IF filled = <<>> THEN 0 ELSE SumLengths(filled) + Len(filled) - 1

\* a segment dictionary: 'type', the length of 'text', 'part',
\* 'comment_number', 'score' (0 where the key is absent)
Segment(type, length, part, comment_number, score) ==
    [type |-> type, length |-> length, part |-> part,
     comment_number |-> comment_number, score |-> score]

\* post_processor.py lines 54-59
TitleSegment(post) == <<Segment("title", post.title, 0, 0, 0)>>

\* lines 62-75: re.split on line breaks of a text without line breaks yields
\* the text itself as paragraph 1
PostContentSegments(post) ==
    IF post.selftext # <<>> /\ CleanedSelftextLength(post.selftext) > 0
    THEN <<Segment("post_content", CleanedSelftextLength(post.selftext), 1, 0, 0)>>
    ELSE <<>>

\* lines 78-91
RECURSIVE CommentSegments(_, _)
CommentSegments(comments, n) ==
    IF n > Len(comments) THEN <<>>
    ELSE (IF comments[n].body < 5 THEN <<>>
          ELSE <<Segment("comment", comments[n].body, 0, n, comments[n].score)>>)
         \o CommentSegments(comments, n + 1)

\* the list built by lines 51-91
AllSegments_CommentsFirst(post, comments) ==
    TitleSegment(post) \o CommentSegments(comments, 1) \o PostContentSegments(post)

AllSegments(post, comments) ==
    TitleSegment(post) \o PostContentSegments(post) \o CommentSegments(comments, 1)

RECURSIVE TextLength(_)
TextLength(segs) ==
    IF segs = <<>> THEN 0 ELSE Head(segs).length + TextLength(Tail(segs))

\* lines 100-106, with `continue` in place of `break`
RECURSIVE KeepWhileFits_SkipsTooLong(_, _, _)
KeepWhileFits_SkipsTooLong(rest, result, max_length) ==
    IF rest = <<>> THEN result
    ELSE IF TextLength(result) + Head(rest).length <= max_length
    THEN KeepWhileFits_SkipsTooLong(Tail(rest), Append(result, Head(rest)), max_length)
    ELSE KeepWhileFits_SkipsTooLong(Tail(rest), result, max_length)

\* lines 100-106: current_length is the text length of result
RECURSIVE KeepWhileFits(_, _, _)
KeepWhileFits(rest, result, max_length) ==
    IF rest = <<>> THEN result
    ELSE IF TextLength(result) + Head(rest).length <= max_length
    THEN KeepWhileFits(Tail(rest), Append(result, Head(rest)), max_length)
    ELSE result

\* lines 93-110
Truncate(segs, max_length) ==
    IF TextLength(segs) > max_length
    THEN KeepWhileFits(Tail(segs), <<Head(segs)>>, max_length)
    ELSE segs

FormatForVideo(post, comments, max_length) ==
    Truncate(AllSegments(post, comments), max_length)

PostRun(post, forest, limit, max_length) ==
    [pc |-> "ready", post |-> post, forest |-> forest, limit |-> limit,
     max_length |-> max_length, comments |-> <<>>, segments |-> <<>>, result |-> <<>>]

InitPost ==
    /\ entry = "post"
    /\ CompositorAndMainAtRest
    /\ bgState = Idle /\ textState = Idle /\ pipeState = Idle
    /\ \E post \in Posts, forest \in CommentForests, limit \in Limits,
          max_length \in MaxLengths :
          postState = PostRun(post, forest, limit, max_length)

\* reddit_client.py lines 80-106
GetTopCommentsCall ==
    /\ postState.pc = "ready"
    /\ postState' = [postState EXCEPT
                       !.pc = "fetched",
                       !.comments = GetTopComments(postState.forest, postState.limit)]
    /\ UNCHANGED <<entry, compVars, mainVars, bgState, textState, pipeState>>

\* post_processor.py lines 51-110
FormatForVideoCall ==
    /\ postState.pc = "fetched"
    /\ postState' = [postState EXCEPT
                       !.pc = "done",
                       !.segments = AllSegments(postState.post, postState.comments),
                       !.result = FormatForVideo(postState.post, postState.comments,
                                                 postState.max_length)]
    /\ UNCHANGED <<entry, compVars, mainVars, bgState, textState, pipeState>>

NextPost ==
    \/ GetTopCommentsCall
    \/ FormatForVideoCall

SpecPost == InitPost /\ [][NextPost]_vars

\* ------------------------------------------------------------------ claims
Built == {k \in DOMAIN segLog : segLog[k].status = "built"}

ClipSegSet == {video_clips[n].seg : n \in 1..Len(video_clips)}

\* total narration time of the segments among the first k that were built
RECURSIVE IncludedNarration(_)
IncludedNarration(k) ==
    IF k = 0 THEN 0
    ELSE IncludedNarration(k - 1)
         + (IF segLog[k].status = "built" THEN segments[k].dur ELSE 0)

\* C1: the clips handed to concatenation are the input segments with the
\* dropped ones removed: earlier in the input means earlier in the timeline,
\* no segment appears twice, nothing is reordered.
C1_TimelineKeepsInputOrder ==
    /\ \A a, b \in 1..Len(video_clips) : a < b => video_clips[a].seg < video_clips[b].seg
    /\ ClipSegSet = Built
    /\ Len(video_clips) = Cardinality(Built)
    /\ final_clip # NoFinalClip => final_clip.order = ClipSegs(video_clips)

C1_Witness ==
    /\ outcome = "returned_path"
    /\ Len(segments) = 3
    /\ segLog[2].status = "failed"
    /\ final_clip.order = <<1, 3>>

\* C2: every built segment clip lasts exactly as long as its narration; so do
\* its background layer, its text layer and the attached audio.
C2_ClipDurationIsAudioDuration ==
    \A n \in 1..Len(video_clips) :
        LET c == video_clips[n]
            d == segments[c.seg].dur
        IN  /\ c.duration = d
            /\ \A l \in 1..Len(c.layers) : c.layers[l].duration = d
            /\ c.audio.seg = c.seg
            /\ c.audio.duration = d

C2_Witness ==
    \E n \in 1..Len(video_clips), m \in 1..Len(video_clips) :
        /\ segLog[video_clips[n].seg].cause = "built_on_video"
        /\ video_clips[n].duration = 3
        /\ segLog[video_clips[m].seg].cause = "built_on_video"
        /\ video_clips[m].duration = 6

\* C3: the concatenated timeline lasts the sum of the narrations of the
\* included segments, nothing from dropped ones; segments of 4, 6 and 3
\* seconds over a 5 second background video give 13 seconds.
C3_TimelineDurationIsSum ==
    final_clip # NoFinalClip =>
        /\ final_clip.duration = IncludedNarration(Len(segments))
        /\ (/\ Len(segments) = 3
            /\ Built = {1, 2, 3}
            /\ <<segments[1].dur, segments[2].dur, segments[3].dur>> = <<4, 6, 3>>)
           => final_clip.duration = 13

C3_Witness ==
    /\ outcome = "returned_path"
    /\ Len(segments) = 3
    /\ <<segments[1].dur, segments[2].dur, segments[3].dur>> = <<4, 6, 3>>
    /\ \A k \in 1..3 : segLog[k].cause = "built_on_video"
    /\ final_clip.duration = 13

\* C4: when generate_video has returned or raised, every media handle opened
\* during the render has been released.
C4_AllHandlesReleased ==
    pc = "done" => opened \subseteq released

\* C5: when the number of audio paths differs from the number of segments the
\* render fails with a ConfigurationError before any clip work: no audio is
\* opened, no background is selected.
AudioPathCount == Cardinality({k \in 1..Len(segments) : segments[k].audio # "absent"})

C5_CountMismatchFailsFast ==
    (entry = "compositor" /\ AudioPathCount # Len(segments)) =>
        /\ opened = {}
        /\ bgSelections = 0
        /\ pc = "done" => (outcome = "raised" /\ raisedAt = "ConfigurationError")

C7_SegmentFailureIsContained ==
    /\ raisedAt # "_create_segment_clip"
    /\ \A k \in DOMAIN segLog : segLog[k].status = "failed" => k \notin ClipSegSet
    /\ (entry = "compositor" /\ pc # "loop") =>
          \A k \in DOMAIN segLog : segLog[k].status # "pending"

C7_Witness ==
    /\ outcome = "returned_path"
    /\ Len(segments) = 3
    /\ segLog[1].cause = "overlay_failed"
    /\ segLog[2].cause = "background_unreadable"
    /\ segLog[3].status = "built"

\* C8: a segment for which no background is available (none returned, or the
\* file does not exist) is still built, on a fallback layer.
C8_FallbackWhenNoBackground ==
    \A k \in DOMAIN segLog :
        segLog[k].cause \in {"background_none", "background_missing"} =>
            segLog[k].status = "built"

\* C9: if concatenation or write_videofile fails, no file is left at the
\* output path.
C9_WriteIsAllOrNothing ==
    (outcome = "raised" /\ raisedAt \in {"concatenate_videoclips", "write_videofile"}) =>
        outputFile = "none"

C12_MissingNarrationDropsSegment ==
    /\ \A k \in DOMAIN segLog :
          (segLog[k].status # "pending" /\ segments[k].audio \in {"absent", "unreadable"}) =>
              /\ segLog[k] \in {[status |-> "skipped", cause |-> "no_audio_key"],
                                [status |-> "failed", cause |-> "audio_unreadable"]}
              /\ k \notin ClipSegSet
    /\ \A k \in DOMAIN segLog :
          (pc = "loop" /\ k < i /\ segments[k].audio \in {"absent", "unreadable"}) =>
              outcome = "running"
    /\ (entry = "compositor" /\ pc # "loop") =>
          /\ i = Len(segments) + 1
          /\ \A a, b \in 1..Len(video_clips) :
                a < b => video_clips[a].seg < video_clips[b].seg

C12_Witness ==
    /\ outcome = "returned_path"
    /\ Len(segments) = 3
    /\ segments[2].audio = "unreadable"
    /\ segLog[1].status = "built"
    /\ segLog[2].cause = "audio_unreadable"
    /\ segLog[3].status = "built"
    /\ ClipSegs(video_clips) = <<1, 3>>

\* C11: select_random_background returns None and raises nothing whenever no
\* background is available (directory missing, empty, or without a regular
\* file of a recognized extension); otherwise it returns one of the available
\* backgrounds.
C11_SelectRandomBackgroundNoneOrMember ==
    (bgState.pc = "done" /\ bgState.op = "select_random_background") =>
        LET available == GetAvailableBackgrounds(bgState.dir)
        IN  /\ bgState.raised = "none"
            /\ available = {} => (bgState.returnsNone /\ bgState.path = NoPath)
            /\ available # {} => (~bgState.returnsNone /\ bgState.path \in available)

C11_Witness ==
    /\ bgState.pc = "done"
    /\ bgState.op = "select_random_background"
    /\ bgState.dir.entries = {[suffix |-> ".png", isFile |-> TRUE],
                              [suffix |-> ".mp4", isFile |-> FALSE]}
    /\ bgState.returnsNone
    /\ bgState.raised = "none"

\* C17: a video background layer lasts exactly the needed duration and starts
\* at source time 0: a shorter source repeats from its start, a longer one is
\* cut to [0, duration].
C17_BackgroundLayerFromSourceStart ==
    (bgState.pc = "done" /\ bgState.op \in {"get_background_clip", "compositor_layer"}
        /\ bgState.clip # NoLayer) =>
        /\ bgState.clip.duration = bgState.needed
        /\ DOMAIN bgState.clip.srcTime = 1..bgState.needed
        /\ bgState.clip.srcTime[1] = 0
        /\ \A t \in 1..bgState.needed :
              bgState.clip.srcTime[t] = (t - 1) % bgState.media.srcDur

C17_Witness ==
    /\ bgState.pc = "done"
    /\ bgState.op = "get_background_clip"
    /\ bgState.media.srcDur = 5
    /\ bgState.needed = 3
    /\ bgState.clip.srcTime = <<0, 1, 2>>

\* C18: fitting a background to the frame yields exactly the target width and
\* height, cropped symmetrically (to the pixel), for every source size.
Abs(n) == IF n >= 0 THEN n ELSE -n

C18_FitToFrameIsExact ==
    (bgState.pc = "done" /\ bgState.op \in {"get_background_clip", "compositor_layer"}
        /\ bgState.clip # NoLayer) =>
        /\ bgState.clip.w = VIDEO_WIDTH
        /\ bgState.clip.h = VIDEO_HEIGHT
        /\ Abs(bgState.clip.left - bgState.clip.right) <= 1
        /\ Abs(bgState.clip.top - bgState.clip.bottom) <= 1

\* the font a finished create_text_clip call measured and wrapped with
FontInUse == LoadFont(textState.font_path, textState.fontExists, textState.font_size)

NotBlank(chunk) == ~IsBlank(chunk)

\* text.split()
Words(text) == SelectSeq(SplitChunks(text), NotBlank)

RECURSIVE WordsOfLines(_)
WordsOfLines(lines) ==
    IF lines = <<>> THEN <<>> ELSE Words(Head(lines)) \o WordsOfLines(Tail(lines))

\* C14: no line returned by _wrap_text is measured wider than max_width,
\* except a line that is one single word itself wider than max_width.
C14_WrappedLinesFitMaxWidth ==
    textState.pc = "done" =>
        \A n \in DOMAIN textState.wrapped_lines :
            LET line == textState.wrapped_lines[n]
            IN  \/ TextWidth(line, FontInUse) <= textState.max_width
                \/ /\ Len(Words(line)) = 1
                   /\ \E m \in DOMAIN Words(textState.text) :
                         /\ Words(textState.text)[m] = Words(line)[1]
                         /\ TextWidth(Words(line)[1], FontInUse) > textState.max_width

\* C15: _wrap_text keeps every word whole and in order: the words of the output
\* lines in sequence are the words of the input, and a word wider than
\* max_width is alone on one line.
C15_WrapKeepsWordsWhole ==
    textState.pc = "done" =>
        /\ WordsOfLines(textState.wrapped_lines) = Words(textState.text)
        /\ \A m \in DOMAIN Words(textState.text) :
              TextWidth(Words(textState.text)[m], FontInUse) > textState.max_width
                  => \E n \in DOMAIN textState.wrapped_lines :
                        textState.wrapped_lines[n] = Words(textState.text)[m]

\* the sizes the search can reach from the start size by fixed steps
FontSizeLadder ==
    {size \in MinFontSize..StartFontSize : (StartFontSize - size) % FontSizeStep = 0}

\* height of lines drawn one below the other (4 pixels between lines)
StackedHeight(lines, font) ==
    IF lines = <<>> THEN 0 ELSE Len(lines) * (LineHeight(font) + 4) - 4

WrappedTextFits(text, font, max_width, max_height) ==
    LET lines == WrapText(text, font, max_width)
    IN  /\ \A n \in DOMAIN lines : TextWidth(lines[n], font) <= max_width
        /\ StackedHeight(lines, font) <= max_height

FittingSizes ==
    {size \in FontSizeLadder :
        WrappedTextFits(textState.text,
                        LoadFont(textState.font_path, textState.fontExists, size),
                        textState.max_width, textState.max_height)}

\* C16: _calculate_max_font_size returns a size of the ladder from the start
\* size down to the minimum size: the largest at which the wrapped and stacked
\* text fits max_width and max_height, or the minimum size when none fits.
C16_LargestSizeWrappedTextFits ==
    (textState.pc = "wrap" /\ textState.argument = NoFontSize) =>
        /\ textState.font_size \in FontSizeLadder
        /\ textState.font_size =
              IF FittingSizes = {} THEN MinFontSize
              ELSE CHOOSE size \in FittingSizes : \A other \in FittingSizes : other <= size

\* C19: when the configured font file does not exist, construction, font size
\* calculation and wrapping raise nothing, and every font load of the
\* generator yields the built-in default font.
C19_MissingFontFallsBackToDefault ==
    (textState.pc # "idle" /\ ~textState.fontExists) =>
        /\ textState.font_path = NoFontPath
        /\ textState.raised = "none"
        /\ textState.pc # "raised"
        /\ textState.fontsLoaded \subseteq {"default"}
        /\ textState.pc \in {"wrap", "done"} /\ textState.argument = NoFontSize
              => textState.fontsLoaded = {"default"}
        /\ textState.pc = "done" => textState.fontsLoaded = {"default"}

C19_Witness ==
    /\ textState.pc = "done"
    /\ ~textState.fontExists
    /\ textState.argument = NoFontSize
    /\ textState.fontsLoaded = {"default"}
    /\ textState.text = <<"x", "x", " ", "W">>
    /\ textState.font_size = MinFontSize
    /\ textState.wrapped_lines = << <<"x", "x">>, <<"W">> >>

\* C13: every audio file created for a run, synthesized narration or
\* placeholder, is deleted by the time generate_video of main.py finishes,
\* whether it returned a video, returned none, or raised.
C13_AudioFilesDeletedAtExit ==
    pipeState.pc \in {"done", "raised"} => pipeState.files = {}

\* C21: get_available_backgrounds returns exactly the regular files of the
\* directory whose name ends with a recognized extension, each once; for a
\* missing directory or one without such a file it returns the empty list
\* and raises nothing.
C21_ListsExactlyRecognizedRegularFiles ==
    (bgState.pc = "done" /\ bgState.op = "get_available_backgrounds") =>
        LET recognized ==
                IF bgState.dir.exists
                THEN {e \in bgState.dir.entries :
                        e.isFile /\ e.suffix \in {".mp4", ".MP4", ".mkv"}}
                ELSE {}
        IN  /\ bgState.raised = "none"
            /\ Range(bgState.backgrounds) = recognized
            /\ Len(bgState.backgrounds) = Cardinality(recognized)
            /\ recognized = {} => bgState.backgrounds = <<>>

C21_Witness ==
    /\ bgState.pc = "done"
    /\ bgState.op = "get_available_backgrounds"
    /\ bgState.dir.entries = {[suffix |-> ".mkv", isFile |-> TRUE],
                              [suffix |-> ".mp4", isFile |-> FALSE]}
    /\ bgState.backgrounds = <<[suffix |-> ".mkv", isFile |-> TRUE]>>

\* C26: every path get_available_backgrounds lists passes the format check of
\* _create_segment_clip: none is rejected as an unsupported background format.
C26_ListedBackgroundsAreSupported ==
    (bgState.pc = "done" /\ bgState.op = "format_check") =>
        bgState.format # "unsupported"

\* a list is the beginning of another
IsPrefix(short, long) ==
    Len(short) <= Len(long) /\ short = SubSeq(long, 1, Len(short))

\* C22: the result of format_for_video is a prefix of the untruncated segment
\* list and begins with the title segment; when the script is too long, the
\* segments are kept whole up to the first one that would push the running
\* length past max_length, so the total length of the result is at most
\* max_length unless the title alone exceeds it.
C22_TruncationKeepsWholePrefix ==
    postState.pc = "done" =>
        LET all == postState.segments
            result == postState.result
            limit == postState.max_length
        IN  /\ IsPrefix(result, all)
            /\ result # <<>> /\ result[1].type = "title"
            /\ TextLength(all) <= limit => result = all
            /\ TextLength(all) > limit =>
                  /\ Len(result) < Len(all)
                        => TextLength(result) + all[Len(result) + 1].length > limit
                  /\ \A n \in 2..Len(result) : TextLength(SubSeq(all, 1, n)) <= limit
            /\ postState.post.title <= limit => TextLength(result) <= limit

C22_Witness ==
    /\ postState.pc = "done"
    /\ postState.max_length = 8
    /\ Len(postState.segments) = 3
    /\ Len(postState.result) = 2
    /\ postState.result[2].type = "post_content"
    /\ postState.segments[3].type = "comment"

\* the positions of the comment segments of the result
CommentPositions == {n \in DOMAIN postState.result : postState.result[n].type = "comment"}

\* C23 as claimed: title first, then the body parts in their original order,
\* then the comments in descending-score rank; no body segment after a
\* comment, no title after position 0.
C23_CommentsInDescendingScore ==
    postState.pc = "done" =>
        /\ postState.result[1].type = "title"
        /\ \A n \in 2..Len(postState.result) : postState.result[n].type # "title"
        /\ \A a, b \in DOMAIN postState.result :
              (postState.result[a].type = "comment" /\ a < b)
                  => postState.result[b].type = "comment"
        /\ \A a, b \in CommentPositions :
              a < b => postState.result[a].score >= postState.result[b].score

\* C23 as amended: title first, then the body, then the comments in the
\* order of the comment list passed in (get_top_comments keeps the order in
\* which Reddit returned them); no body segment after a comment, no title
\* after position 0.
C23_SegmentsInTitleBodyCommentOrder ==
    postState.pc = "done" =>
        /\ postState.result[1].type = "title"
        /\ \A n \in 2..Len(postState.result) : postState.result[n].type # "title"
        /\ \A a, b \in DOMAIN postState.result :
              (postState.result[a].type = "comment" /\ a < b)
                  => postState.result[b].type = "comment"
        /\ \A a, b \in DOMAIN postState.result :
              (postState.result[a].type = "post_content"
                  /\ postState.result[b].type = "post_content" /\ a < b)
                  => postState.result[a].part < postState.result[b].part
        /\ \A a, b \in CommentPositions :
              a < b => postState.result[a].comment_number
                          < postState.result[b].comment_number
        /\ \A a \in CommentPositions :
              LET c == postState.comments[postState.result[a].comment_number]
              IN  c.score = postState.result[a].score
                  /\ c.body = postState.result[a].length
        /\ \A a, b \in DOMAIN postState.comments :
              a < b => postState.comments[a].id < postState.comments[b].id

C23_Witness ==
    /\ postState.pc = "done"
    /\ Len(postState.result) = 4
    /\ postState.result[2].type = "post_content"
    /\ postState.result[3].score < postState.result[4].score

\* C24: in a successful generate_video no clip is closed before
\* write_videofile has returned, and once the output path is returned every
\* clip appended to the timeline and the concatenated final clip are closed.
C24_ClipsClosedAfterWriteOnly ==
    /\ closedClips # {} => (outputFile = "complete" /\ pc = "done")
    /\ pc \in {"loop", "write", "close"} => closedClips = {}
    /\ outcome = "returned_path" =>
          /\ outputFile = "complete"
          /\ <<"final", 0>> \in closedClips
          /\ \A n \in 1..Len(video_clips) :
                <<"composite", video_clips[n].seg>> \in closedClips

C24_Witness ==
    /\ outcome = "returned_path"
    /\ Len(video_clips) = 2
    /\ Cardinality(closedClips) = 3

\* C25: after the audio loop of main.py's generate_video the list of audio
\* paths is as long as the list of segments and entry i belongs to segment
\* i; a failed synthesis puts a placeholder at that position.
C25_AudioPathsAlignedWithSegments ==
    /\ pipeState.pc = "audio_loop" =>
          Len(pipeState.audio_paths) = pipeState.i - 1
    /\ pipeState.pc \in {"audio_loop", "cleanup", "done", "raised"} =>
          \A k \in DOMAIN pipeState.audio_paths :
              /\ pipeState.audio_paths[k][2] = k
              /\ pipeState.segments[k] = "" => pipeState.audio_paths[k][1] = "placeholder"
    /\ (pipeState.pc \in {"cleanup", "done", "raised"}
          \/ (pipeState.pc = "audio_loop" /\ pipeState.i > Len(pipeState.segments))) =>
          Len(pipeState.audio_paths) = Len(pipeState.segments)

C25_Witness ==
    /\ pipeState.pc = "audio_loop"
    /\ pipeState.i > Len(pipeState.segments)
    /\ pipeState.segments = <<"text", "text">>
    /\ pipeState.audio_paths = << <<"placeholder", 1>>, <<"tts", 2>> >>

\* C27: wired as in main.py with the repository's own classes, a background
\* available and every segment with readable audio, the run builds one clip
\* per segment and ends by returning the path of a written output file: no
\* call on a collaborator names a method it lacks.
C27_RepositoryWiringProducesVideo ==
    /\ (entry = "main" /\ mpc = "exited" /\ mainRaised # "Exception") =>
          (mainRaised = "none" /\ exitStatus = 0)
    /\ (entry = "compositor" /\ bgm = "repo" /\ tog = "repo" /\ pc = "done"
          /\ segments # <<>> /\ raisedAt = "nowhere"
          /\ \A k \in DOMAIN segments : segments[k].audio = "ok") =>
          /\ \A k \in DOMAIN segLog : segLog[k].cause # "no_get_random_background"
          /\ Len(video_clips) = Len(segments)
          /\ outcome = "returned_path"
          /\ outputFile = "complete"

====
